---------------------------- MODULE Spec2Model ----------------------------
(***************************************************************************)
(* The memory controller of the VM (crates/vm/src/system/memory/manager):  *)
(* MemoryController over the Memory store, the access adapter inventory    *)
(* and the volatile / persistent memory interface.                         *)
(*                                                                         *)
(* Field elements are modelled by their canonical representatives, so      *)
(* as_canonical_u32 is the identity on them.  A panic is a process abort:  *)
(* the step records the failed call in `last` and no later step is taken.  *)
(*                                                                         *)
(* Specifications: Spec (every call, fatal inputs included), AccessSpec    *)
(* (longer sessions of accesses and increments), TickSpec (accesses        *)
(* alone), SegmentSpec (two chained persistent segments), ShapeSpec        *)
(* (overridden trace heights), ImageSpec (the conversion of an image),     *)
(* PeekSpec (accesses with unsafe reads between them), ClockSpec (every    *)
(* call on the clock, increase_timestamp_to included), RoundSpec (the      *)
(* rounding of trace heights) and MetricsSpec (VmMetrics of                *)
(* crates/vm/src/metrics).                                                 *)
(***************************************************************************)
EXTENDS Integers, Sequences, FiniteSets, TLC

VARIABLES
    interface_chip,   \* MemoryInterface: [kind, initial_memory, touched]
    memory,           \* Memory: [data, block_data, initial_block_size, timestamp]
    access_adapters,  \* AccessAdapterInventory: the adapter records added, in order
    final_state,      \* Option<FinalState>
    overridden_heights, \* the heights set by set_override_trace_heights, per chip
    records,          \* history: every record returned by read / write, in issuance order
    advanced,         \* history: some call that advances the clock has succeeded
    last,             \* history: the call made by the latest step and its outcome
    origin,           \* history: the image last handed to this segment, the segment
                      \* before, and the trace cells before the first instruction
    metrics           \* VmMetrics: [counts, trace_cells, current_trace_cells]

vars == <<interface_chip, memory, access_adapters, final_state, overridden_heights,
          records, advanced, last, origin, metrics>>

\* the controller itself
controller == <<interface_chip, memory, access_adapters, final_state, overridden_heights>>

-----------------------------------------------------------------------------
(* Bounds of the model and program constants *)

\* MemoryConfig::pointer_max_bits of the modelled configuration
pointer_max_bits == 3

\* the clock is capped: no access or increment is taken at or beyond it
MaxClock == 3

\* the cap of the clock in the sessions of successful accesses
MaxAccessClock == 4

\* the cap of the clock in each segment of a chain of segments
MaxSegmentClock == 3

\* the cap of the clock in the sessions made of accesses alone
MaxTickClock == 4

\* the words of the memory images handed to the conversion: 0..MaxImageWord
MaxImageWord == 2

\* the cap of the clock in the sessions that override trace heights
MaxShapeClock == 3

\* the largest height given to set_override_trace_heights
MaxHeight == 4

\* the largest height handed to the rounding of trace heights
MaxRoundHeight == 5

\* the largest number of trace cells of an AIR in the sessions with metrics
MaxTraceCells == 2

\* the largest number of update_trace_cells calls in those sessions
MaxMetricCalls == 3

\* the cap of the clock in the sessions with increase_timestamp_to
MaxTargetClock == 3

\* the width of the clock in those sessions, in place of the 32 bits of u32
ClockBits == 4

\* the cap of the clock in the sessions with unconstrained reads
MaxPeekClock == 3

CHUNK == 8

\* MemoryConfig::max_access_adapter_n of the modelled configuration
max_access_adapter_n == 8

INITIAL_TIMESTAMP == 0

RECURSIVE Pow2(_)
Pow2(k) == IF k = 0 THEN 1 ELSE 2 * Pow2(k - 1)

\* 1 << self.mem_config.pointer_max_bits
PtrBound == Pow2(pointer_max_bits)

\* inputs of the calls
AddressSpaces == {0, 1}
Pointers == {0, PtrBound - 1, PtrBound}
Sizes == {1, 2}
Values == {1, 2}
Deltas == {0, 2}
AccessPointers == {0, 1}
ImageCells == {<<1, 0>>, <<1, 1>>, <<1, 3>>, <<1, CHUNK>>, <<2, 1>>}
ImageSizes == {1, 2, 3, CHUNK}
SegmentAddresses == {<<1, 0>>, <<1, PtrBound - 2>>, <<2, 0>>}

Max(a, b) == IF a >= b THEN a ELSE b
Min(a, b) == IF a <= b THEN a ELSE b

Override(f, g) ==
    [a \in (DOMAIN f) \cup (DOMAIN g) |-> IF a \in DOMAIN g THEN g[a] ELSE f[a]]

\* the smallest key of a non-empty set of pairs of numbers, in the order of a BTreeMap
MinKey(S) ==
    CHOOSE k \in S : \A o \in S : k[1] < o[1] \/ (k[1] = o[1] /\ k[2] <= o[2])

-----------------------------------------------------------------------------
(* Equipartitions and memory images *)

EmptyEquipartition == [k \in {} |-> <<>>]

\* the block at `key`, or a block of zeros where the key is vacant
BlockOrZeros(result, key, N) ==
    IF key \in DOMAIN result THEN result[key] ELSE [i \in 1..N |-> 0]

\* an insertion that starts from a block of zeros even where the key is taken
InsertWordInFreshBlock(result, key, shift, word, N) ==
    Override(result, key :> [[i \in 1..N |-> 0] EXCEPT ![shift + 1] = word])

\* `result.entry(key).or_insert([F::ZERO; N])[shift] = word`
InsertWord(result, key, shift, word, N) ==
    Override(result, key :> [BlockOrZeros(result, key, N) EXCEPT ![shift + 1] = word])

\* the loop over the entries of the image, in the order of its keys
RECURSIVE InsertEntries(_, _, _, _)
InsertEntry(memory_image, rest, result, N, a) ==
    InsertEntries(memory_image, rest \ {a},
                  InsertWord(result, <<a[1], a[2] \div N>>, a[2] % N, memory_image[a], N),
                  N)

InsertEntries(memory_image, rest, result, N) ==
    IF rest = {} THEN result
    ELSE InsertEntry(memory_image, rest, result, N, MinKey(rest))

\* memory_image_to_equipartition::<F, N>: the image is a function from
\* <<addr_space, addr>> to a word
memory_image_to_equipartition(memory_image, N) ==
    InsertEntries(memory_image, DOMAIN memory_image, EmptyEquipartition, N)

\* the images a loader hands to the persistent constructor in this model
ImageA == (<<1, 0>> :> 3) @@ (<<1, PtrBound - 1>> :> 4)
ImageB == (<<1, 1>> :> 5)

InitialMemories ==
    {EmptyEquipartition,
     memory_image_to_equipartition(ImageA, CHUNK),
     memory_image_to_equipartition(ImageB, CHUNK)}

-----------------------------------------------------------------------------
(* Memory store (manager/memory.rs): values, block bookkeeping, the clock *)

\* Memory::new::<N>(initial_memory): every block of the image is recorded with
\* size N and the initial timestamp; the clock starts one past it
MemoryNew(initial_memory, N) ==
    LET cells == {<<k[1], k[2] * N + i>> : k \in DOMAIN initial_memory, i \in 0..(N - 1)}
    IN  [data |-> [a \in cells |-> initial_memory[<<a[1], a[2] \div N>>][(a[2] % N) + 1]],
         block_data |-> [a \in cells |->
                            [pointer |-> a[2] - (a[2] % N), size |-> N,
                             timestamp |-> INITIAL_TIMESTAMP]],
         initial_block_size |-> N,
         timestamp |-> INITIAL_TIMESTAMP + 1]

\* Memory::get: zero if the cell was never set
MemoryGet(m, address_space, pointer) ==
    IF <<address_space, pointer>> \in DOMAIN m.data
    THEN m.data[<<address_space, pointer>>] ELSE 0

\* the block a cell belongs to: the recorded one, or the untouched initial block
BlockOf(m, address_space, pointer) ==
    IF <<address_space, pointer>> \in DOMAIN m.block_data
    THEN m.block_data[<<address_space, pointer>>]
    ELSE [pointer |-> pointer - (pointer % m.initial_block_size),
          size |-> m.initial_block_size,
          timestamp |-> INITIAL_TIMESTAMP]

BlockCells(address_space, pointer, size) ==
    {<<address_space, x>> : x \in pointer..(pointer + size - 1)}

\* AdapterRecord: a block of `size` at `pointer` split into, or merged from, halves
AdapterRecord(kind, address_space, pointer, size) ==
    [kind |-> kind, address_space |-> address_space, pointer |-> pointer, size |-> size]

\* the block map with the block b replaced by its two halves
HalvedBlocks(address_space, b, half) ==
    [a \in BlockCells(address_space, b.pointer, b.size) |->
        IF a[2] < b.pointer + half
        THEN [pointer |-> b.pointer, size |-> half, timestamp |-> b.timestamp]
        ELSE [pointer |-> b.pointer + half, size |-> half, timestamp |-> b.timestamp]]

HalveBlock(m, address_space, b) ==
    [m EXCEPT !.block_data = Override(@, HalvedBlocks(address_space, b, b.size \div 2))]

PrependRecord(rec, r) == [memory |-> r.memory, records |-> <<rec>> \o r.records]

\* halve the block holding `query` until a block starts at `query`
RECURSIVE SplitToMakeBoundary(_, _, _)
SplitBlock(m, address_space, query, b) ==
    IF b.pointer = query
    THEN [memory |-> m, records |-> <<>>]
    ELSE PrependRecord(AdapterRecord("split", address_space, b.pointer, b.size),
                       SplitToMakeBoundary(HalveBlock(m, address_space, b),
                                           address_space, query))

SplitToMakeBoundary(m, address_space, query) ==
    SplitBlock(m, address_space, query, BlockOf(m, address_space, query))

\* record block b for each of its cells
SetBlock(m, address_space, b) ==
    [m EXCEPT !.block_data =
        Override(@, [a \in BlockCells(address_space, b.pointer, b.size) |-> b])]

\* the two halves, accessed, become one block with the later of their timestamps
MergeBlock(recs, left_timestamp, r, address_space, pointer, size) ==
    [memory |-> SetBlock(r.memory, address_space,
                         [pointer |-> pointer, size |-> size,
                          timestamp |-> Max(left_timestamp, r.prev_timestamp)]),
     records |-> recs \o r.records
                 \o <<AdapterRecord("merge", address_space, pointer, size)>>,
     prev_timestamp |-> Max(left_timestamp, r.prev_timestamp)]

\* make [pointer, pointer + size) one block: split at both ends, then, unless
\* it is one block already, access both halves and merge them
RECURSIVE MemoryAccess(_, _, _, _)
MergeHalves(recs, l, address_space, pointer, size) ==
    MergeBlock(recs \o l.records, l.prev_timestamp,
               MemoryAccess(l.memory, address_space, pointer + (size \div 2), size \div 2),
               address_space, pointer, size)

AccessBlock(m, recs, b, address_space, pointer, size) ==
    IF b.pointer = pointer /\ b.size = size
    THEN [memory |-> SetBlock(m, address_space, b),
          records |-> recs,
          prev_timestamp |-> b.timestamp]
    ELSE MergeHalves(recs, MemoryAccess(m, address_space, pointer, size \div 2),
                     address_space, pointer, size)

AccessAfterSplits(recs, s2, address_space, pointer, size) ==
    AccessBlock(s2.memory, recs \o s2.records,
                BlockOf(s2.memory, address_space, pointer),
                address_space, pointer, size)

AccessAfterFirstSplit(s1, address_space, pointer, size) ==
    AccessAfterSplits(s1.records,
                      SplitToMakeBoundary(s1.memory, address_space, pointer + size),
                      address_space, pointer, size)

MemoryAccess(m, address_space, pointer, size) ==
    AccessAfterFirstSplit(SplitToMakeBoundary(m, address_space, pointer),
                          address_space, pointer, size)

\* the access common to read and write: the block is stamped with the clock
StampBlock(acc, address_space, pointer, size, ts) ==
    [memory |-> SetBlock(acc.memory, address_space,
                         [pointer |-> pointer, size |-> size, timestamp |-> ts]),
     records |-> acc.records,
     prev_timestamp |-> acc.prev_timestamp]

AccessUpdatingTimestamp(m, address_space, pointer, size) ==
    StampBlock(MemoryAccess(m, address_space, pointer, size),
               address_space, pointer, size, m.timestamp)

\* Memory::increment_timestamp_by
MemoryIncrementTimestampBy(m, change) == [m EXCEPT !.timestamp = @ + change]

\* Memory::increment_timestamp
MemoryIncrementTimestamp(m) == MemoryIncrementTimestampBy(m, 1)

\* the values of the N cells from `pointer`
CellValues(m, address_space, pointer, N) ==
    [i \in 1..N |-> MemoryGet(m, address_space, pointer + i - 1)]

ReadResult(m, acc, address_space, pointer, N) ==
    [memory |-> MemoryIncrementTimestamp(acc.memory),
     adapter_records |-> acc.records,
     record |-> [kind |-> "read",
                 address_space |-> address_space,
                 pointer |-> pointer,
                 timestamp |-> m.timestamp,
                 prev_timestamp |-> acc.prev_timestamp,
                 data |-> CellValues(m, address_space, pointer, N),
                 prev_data |-> <<>>]]

\* Memory::read::<N>: returns the record, the adapter records and the new store
MemoryRead(m, address_space, pointer, N) ==
    ReadResult(m, AccessUpdatingTimestamp(m, address_space, pointer, N),
               address_space, pointer, N)

\* the store with `data` in the cells from `pointer`
StoreData(m, address_space, pointer, data) ==
    [m EXCEPT !.data =
        Override(@, [a \in BlockCells(address_space, pointer, Len(data)) |->
                        data[a[2] - pointer + 1]])]

WriteResult(m, acc, address_space, pointer, data) ==
    [memory |-> MemoryIncrementTimestamp(StoreData(acc.memory, address_space, pointer, data)),
     adapter_records |-> acc.records,
     record |-> [kind |-> "write",
                 address_space |-> address_space,
                 pointer |-> pointer,
                 timestamp |-> m.timestamp,
                 prev_timestamp |-> acc.prev_timestamp,
                 data |-> data,
                 prev_data |-> CellValues(m, address_space, pointer, Len(data))]]

\* Memory::write::<N>
MemoryWrite(m, address_space, pointer, data) ==
    WriteResult(m, AccessUpdatingTimestamp(m, address_space, pointer, Len(data)),
                address_space, pointer, data)

\* bring the blocks labelled by `keys` to size N, one label after the other
RECURSIVE ReconcileBlocks(_, _, _)
ReconcileRest(acc, rest) ==
    [memory |-> rest.memory, records |-> acc.records \o rest.records]

ReconcileAfter(acc, keys, k, N) ==
    ReconcileRest(acc, ReconcileBlocks(acc.memory, keys \ {k}, N))

ReconcileFirst(m, keys, k, N) ==
    ReconcileAfter(MemoryAccess(m, k[1], k[2] * N, N), keys, k, N)

ReconcileBlocks(m, keys, N) ==
    IF keys = {}
    THEN [memory |-> m, records |-> <<>>]
    ELSE ReconcileFirst(m, keys, MinKey(keys), N)

\* the blocks of the reconciled store as a timestamped equipartition
FinalPartition(rec, keys, N) ==
    [memory |-> rec.memory,
     records |-> rec.records,
     final_memory |->
        [k \in keys |->
            [timestamp |-> BlockOf(rec.memory, k[1], k[2] * N).timestamp,
             values |-> CellValues(rec.memory, k[1], k[2] * N, N)]]]

FinalizeKeys(m, keys, N) == FinalPartition(ReconcileBlocks(m, keys, N), keys, N)

\* Memory::finalize::<N>: every recorded block reconciled to N-cell blocks;
\* returns the timestamped equipartition of those blocks and the adapter records
MemoryFinalize(m, N) ==
    FinalizeKeys(m, {<<a[1], a[2] \div N>> : a \in DOMAIN m.block_data}, N)

-----------------------------------------------------------------------------
(* MemoryController *)

NoFinalState == [kind |-> "None", final_memory |-> EmptyEquipartition]

NoReturn == [some |-> FALSE, value |-> EmptyEquipartition]

\* no call of the interface's finalize
NoTransition == [initial |-> EmptyEquipartition, final |-> EmptyEquipartition]

\* no chip has an overridden height
NoOverriddenHeights ==
    [boundary |-> [some |-> FALSE, height |-> 0],
     merkle |-> [some |-> FALSE, height |-> 0],
     access_adapters |-> [some |-> FALSE, heights |-> <<>>]]

\* the call of a step, as recorded in `last`
Call(op) ==
    [op |-> op, address_space |-> 0, pointer |-> 0, N |-> 0, data |-> <<>>,
     change |-> 0, now_trace_cells |-> <<>>,
     arg_memory |-> EmptyEquipartition, memory_image |-> <<>>, hasher |-> FALSE,
     heights |-> [variant |-> "None"],
     outcome |-> "ok", returned |-> NoReturn, transition |-> NoTransition]

AccessCall(op, address_space, pointer, N) ==
    [Call(op) EXCEPT !.address_space = address_space, !.pointer = pointer, !.N = N]

\* a fatal outcome of an access: nothing but the outcome
Fatal(reason, m) ==
    [outcome |-> reason, memory |-> m, adapter_records |-> <<>>,
     record |-> <<>>, touched |-> {}]

\* a successful access: the store's result, and the cells passed to touch_address
Accessed(r, cells) ==
    [outcome |-> "ok", memory |-> r.memory, adapter_records |-> r.adapter_records,
     record |-> r.record, touched |-> cells]

\* a volatile constructor whose store starts with blocks of CHUNK cells
with_volatile_memory_chunked ==
    [interface_chip |-> [kind |-> "Volatile", initial_memory |-> EmptyEquipartition,
                         touched |-> {}],
     memory |-> MemoryNew(EmptyEquipartition, CHUNK)]

\* MemoryController::with_volatile_memory
with_volatile_memory ==
    [interface_chip |-> [kind |-> "Volatile", initial_memory |-> EmptyEquipartition,
                         touched |-> {}],
     memory |-> MemoryNew(EmptyEquipartition, 1)]

\* a persistent constructor that builds the store from no memory at all
with_persistent_memory_empty_store(initial_memory) ==
    [interface_chip |-> [kind |-> "Persistent", initial_memory |-> initial_memory,
                         touched |-> {}],
     memory |-> MemoryNew(EmptyEquipartition, CHUNK)]

\* MemoryController::with_persistent_memory
with_persistent_memory(initial_memory) ==
    [interface_chip |-> [kind |-> "Persistent", initial_memory |-> initial_memory,
                         touched |-> {}],
     memory |-> MemoryNew(initial_memory, CHUNK)]

\* floor(log2(n)), n >= 1
RECURSIVE Log2(_)
Log2(n) == IF n <= 1 THEN 0 ELSE 1 + Log2(n \div 2)

\* AccessAdapterInventory::num_access_adapters: one adapter per size class
\* 2, 4, .., max_access_adapter_n
num_access_adapters == Log2(max_access_adapter_n)

\* AccessAdapterInventory::get_heights: the records routed to each size class
get_heights(adapters) ==
    [i \in 1..num_access_adapters |->
        Cardinality({j \in DOMAIN adapters : adapters[j].size = Pow2(i)})]

\* MemoryController::continuation_enabled
continuation_enabled == interface_chip.kind = "Persistent"

\* an entry of a trace-shape list: the figure `what` of one chip; n is the
\* block size of an access adapter, 0 for the other chips
BoundaryFigure(what) == [chip |-> "Boundary", n |-> 0, what |-> what]

MerkleFigure(what) == [chip |-> "Merkle", n |-> 0, what |-> what]

\* the list of the inventory for one figure: one entry per adapter, by size
AdapterFigures(what) ==
    [i \in 1..num_access_adapters |-> [chip |-> "AccessAdapter", n |-> Pow2(i), what |-> what]]

\* MemoryController::generate_air_proof_inputs
generate_air_proof_inputs ==
    (IF interface_chip.kind = "Volatile"
     THEN <<BoundaryFigure("air_proof_input")>>
     ELSE <<BoundaryFigure("air_proof_input"), MerkleFigure("air_proof_input")>>)
    \o AdapterFigures("air_proof_input")

\* MemoryController::airs
airs ==
    (IF interface_chip.kind = "Volatile"
     THEN <<BoundaryFigure("air")>>
     ELSE <<BoundaryFigure("air"), MerkleFigure("air")>>)
    \o AdapterFigures("air")

\* MemoryController::num_airs
num_airs == 1 + (IF continuation_enabled THEN 1 ELSE 0) + num_access_adapters

\* air names with the Merkle chip ahead of the boundary chip
air_names_merkle_first ==
    (IF continuation_enabled THEN <<MerkleFigure("air_name")>> ELSE <<>>)
    \o <<BoundaryFigure("air_name")>> \o AdapterFigures("air_name")

\* MemoryController::air_names
air_names ==
    <<BoundaryFigure("air_name")>>
    \o (IF continuation_enabled THEN <<MerkleFigure("air_name")>> ELSE <<>>)
    \o AdapterFigures("air_name")

\* MemoryController::get_memory_trace_heights
get_memory_trace_heights ==
    [variant |-> interface_chip.kind,
     boundary |-> BoundaryFigure("trace_height"),
     merkle |-> MerkleFigure("trace_height"),
     access_adapters |-> AdapterFigures("trace_height")]

\* MemoryTraceHeights::flatten
flatten(heights) ==
    IF heights.variant = "Volatile"
    THEN <<heights.boundary>> \o heights.access_adapters
    ELSE <<heights.boundary, heights.merkle>> \o heights.access_adapters

\* MemoryController::current_trace_heights
current_trace_heights == flatten(get_memory_trace_heights)

\* MemoryController::current_trace_cells
current_trace_cells ==
    (IF interface_chip.kind = "Volatile"
     THEN <<BoundaryFigure("trace_cells")>>
     ELSE <<BoundaryFigure("trace_cells"), MerkleFigure("trace_cells")>>)
    \o AdapterFigures("trace_cells")

\* MemoryController::timestamp
timestamp == memory.timestamp

\* an unsafe_read that starts one cell late
unsafe_read_from_next(m, addr_space, ptr, N) ==
    [i \in 1..N |-> MemoryGet(m, addr_space, ptr + i)]

\* MemoryController::unsafe_read::<N> on the store m
unsafe_read(m, addr_space, ptr, N) ==
    [i \in 1..N |-> MemoryGet(m, addr_space, ptr + (i - 1))]

\* MemoryController::unsafe_read_cell on the store m
unsafe_read_cell(m, addr_space, ptr) == unsafe_read(m, addr_space, ptr, 1)[1]

\* the bounds assertion of read
ReadInBounds(address_space, ptr_u32) ==
    address_space = 0 \/ ptr_u32 < PtrBound

\* a bounds assertion of write that admits the pointer 2^pointer_max_bits
WriteInBoundsInclusive(ptr_u32) == ptr_u32 <= PtrBound

\* the bounds assertion of write
WriteInBounds(ptr_u32) == ptr_u32 < PtrBound

\* a record of a read of address space 0 whose prev_timestamp is the timestamp
ImmediateReadRecordPrevIsNow(address_space, pointer, ts) ==
    [kind |-> "read", address_space |-> address_space, pointer |-> pointer,
     timestamp |-> ts, prev_timestamp |-> ts,
     data |-> [i \in 1..1 |-> pointer], prev_data |-> <<>>]

\* the record of a read of address space 0
ImmediateReadRecord(address_space, pointer, ts) ==
    [kind |-> "read", address_space |-> address_space, pointer |-> pointer,
     timestamp |-> ts, prev_timestamp |-> 0,
     data |-> [i \in 1..1 |-> pointer], prev_data |-> <<>>]

\* a read of address space 0 that advances the clock twice
ImmediateReadMemoryTickingTwice(m) == MemoryIncrementTimestampBy(m, 2)

\* a read of address space 0 that leaves the clock alone
ImmediateReadMemoryNoTick(m) == m

\* the store after a read of address space 0
ImmediateReadMemory(m) == MemoryIncrementTimestamp(m)

\* a read that hands the store its arguments in the wrong order
ReadCallSwapped(m, address_space, pointer, N) ==
    IF ~ReadInBounds(address_space, pointer)
    THEN Fatal("OutOfBounds", m)
    ELSE IF address_space = 0
         THEN IF N # 1
              THEN Fatal("InvalidZeroAddressSpaceAccess", m)
              ELSE [outcome |-> "ok",
                    memory |-> ImmediateReadMemory(m),
                    adapter_records |-> <<>>,
                    record |-> ImmediateReadRecord(address_space, pointer, m.timestamp),
                    touched |-> {}]
         ELSE Accessed(MemoryRead(m, pointer, address_space, N),
                       BlockCells(address_space, pointer, N))

\* a read of address space 0 that falls through to the touch_address loop
ReadCallTouchingImmediate(m, address_space, pointer, N) ==
    IF ~ReadInBounds(address_space, pointer)
    THEN Fatal("OutOfBounds", m)
    ELSE IF address_space = 0
         THEN IF N # 1
              THEN Fatal("InvalidZeroAddressSpaceAccess", m)
              ELSE [outcome |-> "ok",
                    memory |-> ImmediateReadMemory(m),
                    adapter_records |-> <<>>,
                    record |-> ImmediateReadRecord(address_space, pointer, m.timestamp),
                    touched |-> BlockCells(address_space, pointer, N)]
         ELSE Accessed(MemoryRead(m, address_space, pointer, N),
                       BlockCells(address_space, pointer, N))

\* a read that reads the store twice and keeps the second record
ReadCallReadingTwice(m, address_space, pointer, N) ==
    IF ~ReadInBounds(address_space, pointer)
    THEN Fatal("OutOfBounds", m)
    ELSE IF address_space = 0
         THEN IF N # 1
              THEN Fatal("InvalidZeroAddressSpaceAccess", m)
              ELSE [outcome |-> "ok",
                    memory |-> ImmediateReadMemory(m),
                    adapter_records |-> <<>>,
                    record |-> ImmediateReadRecord(address_space, pointer, m.timestamp),
                    touched |-> {}]
         ELSE Accessed(MemoryRead(MemoryRead(m, address_space, pointer, N).memory,
                                  address_space, pointer, N),
                       BlockCells(address_space, pointer, N))

\* MemoryController::read::<N>
ReadCall(m, address_space, pointer, N) ==
    IF ~ReadInBounds(address_space, pointer)
    THEN Fatal("OutOfBounds", m)
    ELSE IF address_space = 0
         THEN IF N # 1
              THEN Fatal("InvalidZeroAddressSpaceAccess", m)
              ELSE [outcome |-> "ok",
                    memory |-> ImmediateReadMemory(m),
                    adapter_records |-> <<>>,
                    record |-> ImmediateReadRecord(address_space, pointer, m.timestamp),
                    touched |-> {}]
         ELSE Accessed(MemoryRead(m, address_space, pointer, N),
                       BlockCells(address_space, pointer, N))

\* a write that writes the store twice and keeps the second record
WriteCallWritingTwice(m, address_space, pointer, data) ==
    IF address_space = 0
    THEN Fatal("InvalidZeroAddressSpaceAccess", m)
    ELSE IF ~WriteInBounds(pointer)
         THEN Fatal("OutOfBounds", m)
         ELSE Accessed(MemoryWrite(MemoryWrite(m, address_space, pointer, data).memory,
                                   address_space, pointer, data),
                       BlockCells(address_space, pointer, Len(data)))

\* a write that passes only its first cell to touch_address
WriteCallTouchingFirstCell(m, address_space, pointer, data) ==
    IF address_space = 0
    THEN Fatal("InvalidZeroAddressSpaceAccess", m)
    ELSE IF ~WriteInBounds(pointer)
         THEN Fatal("OutOfBounds", m)
         ELSE Accessed(MemoryWrite(m, address_space, pointer, data),
                       BlockCells(address_space, pointer, 1))

\* a write without the assertion on the address space
WriteCallNoZeroCheck(m, address_space, pointer, data) ==
    IF ~WriteInBounds(pointer)
    THEN Fatal("OutOfBounds", m)
    ELSE Accessed(MemoryWrite(m, address_space, pointer, data),
                  BlockCells(address_space, pointer, Len(data)))

\* MemoryController::write::<N>
WriteCall(m, address_space, pointer, data) ==
    IF address_space = 0
    THEN Fatal("InvalidZeroAddressSpaceAccess", m)
    ELSE IF ~WriteInBounds(pointer)
         THEN Fatal("OutOfBounds", m)
         ELSE Accessed(MemoryWrite(m, address_space, pointer, data),
                       BlockCells(address_space, pointer, Len(data)))

\* the effect of a read or write call on the controller
ApplyAccess(call, res) ==
    /\ last' = [call EXCEPT !.outcome = res.outcome]
    /\ memory' = res.memory
    /\ access_adapters' = access_adapters \o res.adapter_records
    /\ interface_chip' = [interface_chip EXCEPT !.touched = @ \cup res.touched]
    /\ records' = IF res.outcome = "ok" THEN Append(records, res.record) ELSE records
    /\ advanced' = (advanced \/ res.outcome = "ok")
    /\ UNCHANGED <<final_state, overridden_heights, origin, metrics>>

Running == last.outcome = "ok"

Read(address_space, pointer, N) ==
    /\ Running
    /\ ApplyAccess(AccessCall("read", address_space, pointer, N),
                   ReadCall(memory, address_space, pointer, N))

Write(address_space, pointer, data) ==
    /\ Running
    /\ ApplyAccess([AccessCall("write", address_space, pointer, Len(data)) EXCEPT
                       !.data = data],
                   WriteCall(memory, address_space, pointer, data))

\* a call of unsafe_read::<N>, or of unsafe_read_cell where N = 1: `&self`
UnsafeRead(addr_space, ptr, N) ==
    /\ Running
    /\ last' = [AccessCall("unsafe_read", addr_space, ptr, N) EXCEPT
                   !.returned =
                       [some |-> TRUE,
                        value |-> IF N = 1
                                  THEN <<unsafe_read_cell(memory, addr_space, ptr)>>
                                  ELSE unsafe_read(memory, addr_space, ptr, N)]]
    /\ UNCHANGED <<controller, records, advanced, origin, metrics>>

\* MemoryController::increment_timestamp
IncrementTimestamp ==
    /\ Running
    /\ memory' = MemoryIncrementTimestamp(memory)
    /\ last' = Call("increment_timestamp")
    /\ advanced' = TRUE
    /\ UNCHANGED <<interface_chip, access_adapters, final_state, overridden_heights,
                   records, origin, metrics>>

\* MemoryController::increment_timestamp_by
IncrementTimestampBy(change) ==
    /\ Running
    /\ memory' = MemoryIncrementTimestampBy(memory, change)
    /\ last' = [Call("increment_timestamp_by") EXCEPT !.change = change]
    /\ advanced' = (advanced \/ change >= 1)
    /\ UNCHANGED <<interface_chip, access_adapters, final_state, overridden_heights,
                   records, origin, metrics>>

\* `timestamp - self.memory.timestamp()` in a build without overflow checks
WrappingSub(a, b) == (a + Pow2(ClockBits) - b) % Pow2(ClockBits)

\* Memory::increment_timestamp_by in a build without overflow checks
MemoryIncrementTimestampByWrapping(m, change) ==
    [m EXCEPT !.timestamp = (@ + change) % Pow2(ClockBits)]

\* MemoryController::increase_timestamp_to; the argument is kept in
\* last.change. With the target below the clock the subtraction overflows:
\* a build with overflow checks panics, a build without them wraps, here and
\* in the addition that follows.
IncreaseTimestampTo(ts) ==
    LET call == [Call("increase_timestamp_to") EXCEPT !.change = ts]
    IN  /\ Running
        /\ \/ /\ ts >= timestamp
              /\ memory' = MemoryIncrementTimestampBy(memory, ts - timestamp)
              /\ last' = call
           \/ /\ ts < timestamp
              /\ last' = [call EXCEPT !.outcome = "SubtractOverflow"]
              /\ UNCHANGED memory
           \/ /\ ts < timestamp
              /\ memory' = MemoryIncrementTimestampByWrapping(memory,
                                WrappingSub(ts, timestamp))
              /\ last' = call
        /\ advanced' = (advanced \/ memory'.timestamp > timestamp)
        /\ UNCHANGED <<interface_chip, access_adapters, final_state, overridden_heights,
                       records, origin, metrics>>

\* a guard of set_initial_memory that lets one more tick pass
InitialMemoryTooLateByOne(ts) == ts > INITIAL_TIMESTAMP + 2

\* the guard of set_initial_memory on the clock
InitialMemoryTooLate(ts) == ts > INITIAL_TIMESTAMP + 1

\* a check of the variant that lets every MemoryTraceHeights pass
OverrideVariantAny(kind, overridden_heights_arg) == TRUE

\* the `match overridden_heights` of set_override_trace_heights
OverrideVariantMatches(kind, overridden_heights_arg) ==
    overridden_heights_arg.variant = kind

\* AccessAdapterInventory::set_override_trace_heights refuses a height below
\* the number of records of its size class
AdapterOverrideTooSmall(adapters, heights) ==
    \E i \in 1..num_access_adapters : heights[i] < get_heights(adapters)[i]

\* the heights after a matching override: the boundary chip's, the Merkle
\* chip's if there is one, and those of the inventory
Overridden(kind, before, oh) ==
    [boundary |-> [some |-> TRUE, height |-> oh.boundary],
     merkle |-> IF kind = "Persistent"
                THEN [some |-> TRUE, height |-> oh.merkle] ELSE before.merkle,
     access_adapters |-> [some |-> TRUE, heights |-> oh.access_adapters]]

\* MemoryController::set_override_trace_heights
SetOverrideTraceHeights(oh) ==
    /\ Running
    /\ last' = [Call("set_override_trace_heights") EXCEPT
                   !.heights = oh,
                   !.outcome =
                       IF ~OverrideVariantMatches(interface_chip.kind, oh)
                       THEN "TraceHeightVariantMismatch"
                       ELSE IF AdapterOverrideTooSmall(access_adapters, oh.access_adapters)
                            THEN "AdapterOverrideTooSmall" ELSE "ok"]
    /\ overridden_heights' =
           IF last'.outcome = "ok"
           THEN Overridden(interface_chip.kind, overridden_heights, oh)
           ELSE overridden_heights
    /\ UNCHANGED <<interface_chip, memory, access_adapters, final_state,
                   records, advanced, origin, metrics>>

\* a volatile controller that accepts any initial memory
VolatileInitialMemoryAccepted(mem) == "ok"

\* set_initial_memory on a volatile controller: only `memory.is_empty()` passes
VolatileInitialMemoryOutcome(mem) ==
    IF DOMAIN mem # {} THEN "InitialMemoryForVolatile" ELSE "ok"

\* a set_initial_memory that keeps the store it has
StoreNotRebuilt(m, mem) == m

\* set_initial_memory on a persistent controller: `self.memory = Memory::new(..)`
RebuiltStore(m, mem) == MemoryNew(mem, CHUNK)

\* MemoryController::set_initial_memory
SetInitialMemory(mem) ==
    LET call == [Call("set_initial_memory") EXCEPT !.arg_memory = mem]
    IN  /\ Running
        /\ IF InitialMemoryTooLate(timestamp)
           THEN /\ last' = [call EXCEPT !.outcome = "PrematureInitialMemorySet"]
                /\ UNCHANGED <<interface_chip, memory>>
           ELSE IF interface_chip.kind = "Volatile"
                THEN /\ last' = [call EXCEPT !.outcome = VolatileInitialMemoryOutcome(mem)]
                     /\ UNCHANGED <<interface_chip, memory>>
                ELSE /\ last' = call
                     /\ interface_chip' = [interface_chip EXCEPT !.initial_memory = mem]
                     /\ memory' = RebuiltStore(memory, mem)
        /\ origin' = IF last'.outcome = "ok" /\ interface_chip.kind = "Persistent"
                      THEN [origin EXCEPT !.loaded = mem] ELSE origin
        /\ UNCHANGED <<access_adapters, final_state, overridden_heights, records, advanced,
                       metrics>>

\* a finalize that never finds a final state
AlreadyFinalizedNever(fs) == FALSE

\* `final_state.is_some()`
AlreadyFinalized(fs) == fs.kind # "None"

\* the values of a timestamped equipartition
FinalMemoryValues(final_partition) ==
    [k \in DOMAIN final_partition |-> final_partition[k].values]

\* a finalize that does not hand the residual adapter records to the inventory
FinalizedDroppingResiduals(call, fin, fs, ret) ==
    /\ memory' = fin.memory
    /\ final_state' = fs
    /\ access_adapters' = access_adapters
    /\ last' = [call EXCEPT !.returned = ret,
                            !.transition = [initial |-> interface_chip.initial_memory,
                                            final |-> fin.final_memory]]

\* the successful branches of finalize: the residual adapter records are added
Finalized(call, fin, fs, ret) ==
    /\ memory' = fin.memory
    /\ final_state' = fs
    /\ access_adapters' = access_adapters \o fin.records
    /\ last' = [call EXCEPT !.returned = ret,
                            !.transition = [initial |-> interface_chip.initial_memory,
                                            final |-> fin.final_memory]]

\* a volatile finalize that returns the final memory
FinalizedVolatileReturningMemory(call, fin) ==
    Finalized(call, fin,
              [kind |-> "Volatile", final_memory |-> EmptyEquipartition],
              [some |-> TRUE, value |-> FinalMemoryValues(fin.final_memory)])

FinalizedVolatile(call, fin) ==
    Finalized(call, fin,
              [kind |-> "Volatile", final_memory |-> EmptyEquipartition], NoReturn)

\* a persistent finalize that returns the initial memory
FinalizedPersistentReturningInitial(call, fin, final_memory_values) ==
    Finalized(call, fin,
              [kind |-> "Persistent", final_memory |-> final_memory_values],
              [some |-> TRUE, value |-> interface_chip.initial_memory])

\* a persistent finalize that keeps the initial memory as its final state
FinalizedPersistentKeepingInitial(call, fin, final_memory_values) ==
    Finalized(call, fin,
              [kind |-> "Persistent", final_memory |-> interface_chip.initial_memory],
              [some |-> TRUE, value |-> final_memory_values])

FinalizedPersistent(call, fin, final_memory_values) ==
    Finalized(call, fin,
              [kind |-> "Persistent", final_memory |-> final_memory_values],
              [some |-> TRUE, value |-> final_memory_values])

FinalizeFatal(call, reason) ==
    /\ last' = [call EXCEPT !.outcome = reason]
    /\ UNCHANGED <<memory, access_adapters, final_state>>

FinalizeCall(hasher) == [Call("finalize") EXCEPT !.hasher = hasher]

\* MemoryController::finalize
Finalize(hasher) ==
    /\ Running
    /\ IF AlreadyFinalized(final_state)
       THEN FinalizeFatal(FinalizeCall(hasher), "DoubleFinalize")
       ELSE IF interface_chip.kind = "Volatile"
            THEN FinalizedVolatile(FinalizeCall(hasher), MemoryFinalize(memory, 1))
            ELSE IF ~hasher
                 THEN FinalizeFatal(FinalizeCall(hasher), "HasherMissing")
                 ELSE FinalizedPersistent(
                          FinalizeCall(hasher),
                          MemoryFinalize(memory, CHUNK),
                          FinalMemoryValues(MemoryFinalize(memory, CHUNK).final_memory))
    /\ UNCHANGED <<interface_chip, overridden_heights, records, advanced, origin, metrics>>

-----------------------------------------------------------------------------
(* MemoryTraceHeights *)

\* usize::next_power_of_two: the powers of two from p upwards until one
\* reaches n
RECURSIVE NextPowerOfTwoFrom(_, _)
NextPowerOfTwoFrom(p, n) == IF p >= n THEN p ELSE NextPowerOfTwoFrom(2 * p, n)

next_power_of_two(n) == NextPowerOfTwoFrom(1, n)

\* next_power_of_two_or_zero of the circuit primitives
next_power_of_two_or_zero(n) == IF n = 0 THEN 0 ELSE next_power_of_two(n)

\* a rounding of volatile heights that leaves the adapters as they are
VolatileRoundBoundaryOnly(oh) ==
    [oh EXCEPT !.boundary = next_power_of_two(@)]

\* VolatileMemoryTraceHeights::round_to_next_power_of_two
VolatileRound(oh) ==
    [oh EXCEPT !.boundary = next_power_of_two(@),
               !.access_adapters = [i \in DOMAIN @ |-> next_power_of_two(@[i])]]

\* VolatileMemoryTraceHeights::round_to_next_power_of_two_or_zero
VolatileRoundOrZero(oh) ==
    [oh EXCEPT !.boundary = next_power_of_two_or_zero(@),
               !.access_adapters = [i \in DOMAIN @ |-> next_power_of_two_or_zero(@[i])]]

\* PersistentMemoryTraceHeights::round_to_next_power_of_two
PersistentRound(oh) ==
    [oh EXCEPT !.boundary = next_power_of_two(@),
               !.merkle = next_power_of_two(@),
               !.access_adapters = [i \in DOMAIN @ |-> next_power_of_two(@[i])]]

\* PersistentMemoryTraceHeights::round_to_next_power_of_two_or_zero
PersistentRoundOrZero(oh) ==
    [oh EXCEPT !.boundary = next_power_of_two_or_zero(@),
               !.merkle = next_power_of_two_or_zero(@),
               !.access_adapters = [i \in DOMAIN @ |-> next_power_of_two_or_zero(@[i])]]

\* MemoryTraceHeights::round_to_next_power_of_two
round_to_next_power_of_two(heights) ==
    IF heights.variant = "Volatile" THEN VolatileRound(heights) ELSE PersistentRound(heights)

\* MemoryTraceHeights::round_to_next_power_of_two_or_zero
round_to_next_power_of_two_or_zero(heights) ==
    IF heights.variant = "Volatile"
    THEN VolatileRoundOrZero(heights) ELSE PersistentRoundOrZero(heights)

\* the MemoryTraceHeights a rounding is called on: the outcome of the rounding
\* before it, or the heights handed over
Receiver ==
    IF last.returned.some THEN last.returned.value ELSE last.heights

\* a call of round_to_next_power_of_two on the heights: `&mut self`
RoundToNextPowerOfTwo ==
    /\ last' = [Call("round_to_next_power_of_two") EXCEPT
                   !.heights = Receiver,
                   !.returned = [some |-> TRUE,
                                 value |-> round_to_next_power_of_two(Receiver)]]
    /\ UNCHANGED <<controller, records, advanced, origin, metrics>>

\* a call of round_to_next_power_of_two_or_zero on the heights: `&mut self`
RoundToNextPowerOfTwoOrZero ==
    /\ last' = [Call("round_to_next_power_of_two_or_zero") EXCEPT
                   !.heights = Receiver,
                   !.returned = [some |-> TRUE,
                                 value |-> round_to_next_power_of_two_or_zero(Receiver)]]
    /\ UNCHANGED <<controller, records, advanced, origin, metrics>>

-----------------------------------------------------------------------------
(* VmMetrics *)

\* the trace cells of a segment whose metrics are not followed
NoTraceCells == <<>>

\* VmMetrics::default(): empty maps and an empty current_trace_cells
DefaultVmMetrics ==
    [counts |-> <<>>, trace_cells |-> <<>>, current_trace_cells |-> <<>>]

\* *map.entry(key).or_insert(0) += amount
AddToEntry(map, key, amount) ==
    IF key \in DOMAIN map
    THEN [map EXCEPT ![key] = @ + amount]
    ELSE map @@ (key :> amount)

\* the number of triples izip! yields: the length of the shortest of the three
ZipLength(air_names_arg, now_trace_cells, prev_trace_cells) ==
    Min(Len(air_names_arg), Min(Len(now_trace_cells), Len(prev_trace_cells)))

\* the body of the loop for the i-th triple
AttributeCells(trace_cells, key, air_name, now_value, prev_value) ==
    IF prev_value # now_value
    THEN AddToEntry(trace_cells, <<key[1], key[2], air_name>>, now_value - prev_value)
    ELSE trace_cells

\* the loop over the triples from the i-th to the n-th
RECURSIVE AttributeFrom(_, _, _, _, _, _, _)
AttributeFrom(trace_cells, key, air_names_arg, now_trace_cells, prev_trace_cells, i, n) ==
    IF i > n
    THEN trace_cells
    ELSE AttributeFrom(AttributeCells(trace_cells, key, air_names_arg[i],
                                      now_trace_cells[i], prev_trace_cells[i]),
                       key, air_names_arg, now_trace_cells, prev_trace_cells, i + 1, n)

\* VmMetrics::update_trace_cells
update_trace_cells(m, air_names_arg, now_trace_cells, opcode_name, dsl_instr) ==
    [counts |-> AddToEntry(m.counts, <<dsl_instr, opcode_name>>, 1),
     trace_cells |->
         AttributeFrom(m.trace_cells, <<dsl_instr, opcode_name>>, air_names_arg,
                       now_trace_cells, m.current_trace_cells, 1,
                       ZipLength(air_names_arg, now_trace_cells, m.current_trace_cells)),
     current_trace_cells |-> now_trace_cells]

\* ExecutionSegment::air_names of the segment: two AIRs
SegmentAirNames == <<"Boundary", "AccessAdapter<2>">>

\* a call of update_trace_cells from update_instruction_metrics, profiling on,
\* after an instruction that left the AIRs with now_trace_cells cells
UpdateTraceCells(now_trace_cells, opcode_name, dsl_instr) ==
    /\ Running
    /\ metrics' = update_trace_cells(metrics, SegmentAirNames, now_trace_cells,
                                     opcode_name, dsl_instr)
    /\ last' = [Call("update_trace_cells") EXCEPT !.now_trace_cells = now_trace_cells]
    /\ UNCHANGED <<controller, records, advanced, origin>>

-----------------------------------------------------------------------------
(* The specification *)

Constructed(c) ==
    /\ interface_chip = c.interface_chip
    /\ memory = c.memory
    /\ access_adapters = <<>>
    /\ final_state = NoFinalState
    /\ overridden_heights = NoOverriddenHeights
    /\ records = <<>>
    /\ advanced = FALSE
    /\ last = Call("new")
    /\ origin = [loaded |-> c.interface_chip.initial_memory,
                 held |-> <<>>,
                 segment |-> 1,
                 trace_cells |-> NoTraceCells]
    /\ metrics = DefaultVmMetrics

Init ==
    \/ Constructed(with_volatile_memory)
    \/ \E im \in InitialMemories : Constructed(with_persistent_memory(im))

WriteData(N) == {[i \in 1..N |-> v] : v \in Values}

\* every call of the controller, on inputs that include each fatal case; the
\* clock stays within MaxClock
Next ==
    \/ /\ timestamp < MaxClock
       /\ \E a \in AddressSpaces, p \in Pointers, N \in Sizes : Read(a, p, N)
    \/ /\ timestamp < MaxClock
       /\ \E a \in AddressSpaces, p \in Pointers, N \in Sizes :
             \E d \in WriteData(N) : Write(a, p, d)
    \/ /\ timestamp < MaxClock
       /\ IncrementTimestamp
    \/ \E d \in Deltas : timestamp + d <= MaxClock /\ IncrementTimestampBy(d)
    \/ \E im \in InitialMemories : SetInitialMemory(im)
    \/ \E h \in BOOLEAN : Finalize(h)

Spec == Init /\ [][Next]_vars

\* longer sessions of successful accesses: reads and writes of one and two
\* cells on overlapping addresses, immediate reads and clock increments; the
\* clock stays within MaxAccessClock
AccessNext ==
    \/ /\ timestamp < MaxAccessClock
       /\ \E p \in AccessPointers, N \in Sizes : Read(1, p, N)
    \/ /\ timestamp < MaxAccessClock
       /\ \E p \in AccessPointers, N \in Sizes : \E d \in WriteData(N) : Write(1, p, d)
    \/ /\ timestamp < MaxAccessClock
       /\ \E p \in AccessPointers : Read(0, p, 1)
    \/ /\ timestamp < MaxAccessClock
       /\ IncrementTimestamp
    \/ \E d \in Deltas : timestamp + d <= MaxAccessClock /\ IncrementTimestampBy(d)

AccessSpec == Init /\ [][AccessNext]_vars

\* the cells whose values are followed from one segment to the next
SegmentCells == {<<a, p>> : a \in {1, 2}, p \in 0..(PtrBound + CHUNK - 1)}

\* the next segment of a continuation: a persistent controller constructed
\* with the Equipartition the finalize of this segment has just returned
NextSegment ==
    /\ Running
    /\ origin.segment = 1
    /\ last.op = "finalize" /\ last.returned.some
    /\ interface_chip' = with_persistent_memory(last.returned.value).interface_chip
    /\ memory' = with_persistent_memory(last.returned.value).memory
    /\ access_adapters' = <<>>
    /\ final_state' = NoFinalState
    /\ overridden_heights' = NoOverriddenHeights
    /\ records' = <<>>
    /\ advanced' = FALSE
    /\ last' = [Call("with_persistent_memory") EXCEPT !.arg_memory = last.returned.value]
    /\ origin' = [loaded |-> last.returned.value,
                  held |-> [c \in SegmentCells |-> unsafe_read(memory, c[1], c[2], 1)[1]],
                  segment |-> 2,
                  trace_cells |-> NoTraceCells]
    /\ UNCHANGED metrics

SegmentInit ==
    \E im \in {EmptyEquipartition, memory_image_to_equipartition(ImageA, CHUNK)} :
        Constructed(with_persistent_memory(im))

\* the clock up to which a segment makes accesses: the first one up to
\* MaxSegmentClock, the second one for a single access
SegmentClock == IF origin.segment = 1 THEN MaxSegmentClock ELSE INITIAL_TIMESTAMP + 2

\* two chained segments of a persistent execution that keep to the life
\* cycle: accesses of one and two cells in two address spaces, finalize of
\* the first segment with a hasher, the construction of the next segment and
\* an access of it
SegmentNext ==
    \/ /\ timestamp < SegmentClock /\ final_state.kind = "None"
       /\ \E c \in SegmentAddresses, N \in Sizes : Read(c[1], c[2], N)
    \/ /\ timestamp < SegmentClock /\ final_state.kind = "None"
       /\ \E c \in SegmentAddresses, N \in Sizes :
             \E d \in WriteData(N) : Write(c[1], c[2], d)
    \/ origin.segment = 1 /\ final_state.kind = "None" /\ Finalize(TRUE)
    \/ NextSegment

SegmentSpec == SegmentInit /\ [][SegmentNext]_vars

\* the sparse images of a loader: words at some of the ImageCells
MemoryImages == UNION {[S -> 0..MaxImageWord] : S \in SUBSET ImageCells}

\* a loader holds an image and a block size; no controller call is made
ImageInit ==
    \E image \in MemoryImages, N \in ImageSizes :
        /\ interface_chip = with_volatile_memory.interface_chip
        /\ memory = with_volatile_memory.memory
        /\ access_adapters = <<>>
        /\ final_state = NoFinalState
        /\ overridden_heights = NoOverriddenHeights
        /\ records = <<>>
        /\ advanced = FALSE
        /\ last = [Call("memory_image") EXCEPT !.memory_image = image, !.N = N]
        /\ origin = [loaded |-> EmptyEquipartition, held |-> <<>>, segment |-> 1,
                     trace_cells |-> NoTraceCells]
        /\ metrics = DefaultVmMetrics

\* the loader converts its image
ConvertImage ==
    /\ last.op = "memory_image"
    /\ last' = [last EXCEPT
                   !.op = "memory_image_to_equipartition",
                   !.returned = [some |-> TRUE,
                                 value |-> memory_image_to_equipartition(
                                               last.memory_image, last.N)]]
    /\ UNCHANGED <<controller, records, advanced, origin, metrics>>

ImageSpec == ImageInit /\ [][ConvertImage]_vars

\* the MemoryTraceHeights given to set_override_trace_heights
OverrideInputs ==
    {[variant |-> v, boundary |-> b,
      merkle |-> IF v = "Persistent" THEN b ELSE 0,
      access_adapters |-> [i \in 1..num_access_adapters |-> a]] :
        v \in {"Volatile", "Persistent"}, b \in {1, MaxHeight}, a \in {0, MaxHeight}}

\* sessions that override trace heights, of either variant, before and after
\* accesses that leave adapter records and before and after finalize; the
\* clock stays within MaxShapeClock
ShapeNext ==
    \/ /\ timestamp < MaxShapeClock
       /\ \E N \in Sizes : Read(1, 0, N)
    \/ /\ timestamp < MaxShapeClock
       /\ \E N \in Sizes : \E d \in WriteData(N) : Write(1, 0, d)
    \/ \E oh \in OverrideInputs : SetOverrideTraceHeights(oh)
    \/ Finalize(TRUE)

ShapeSpec == Init /\ [][ShapeNext]_vars

\* sessions of every call that acts on the clock: reads and writes of one cell,
\* the two increments, increase_timestamp_to with targets below, at and above
\* the clock, set_initial_memory and finalize; the clock stays within
\* MaxTargetClock and the accesses number at most MaxTargetClock - 1
ClockInit ==
    \/ Constructed(with_volatile_memory)
    \/ Constructed(with_persistent_memory(EmptyEquipartition))

ClockNext ==
    \/ /\ timestamp < MaxTargetClock /\ Len(records) < MaxTargetClock - 1
       /\ Read(1, 0, 1)
    \/ /\ timestamp < MaxTargetClock /\ Len(records) < MaxTargetClock - 1
       /\ Write(1, 0, <<1>>)
    \/ /\ timestamp < MaxTargetClock
       /\ IncrementTimestamp
    \/ \E d \in Deltas : timestamp + d <= MaxTargetClock /\ IncrementTimestampBy(d)
    \/ \E ts \in 0..MaxTargetClock : IncreaseTimestampTo(ts)
    \/ SetInitialMemory(memory_image_to_equipartition(ImageA, CHUNK))
    \/ Finalize(TRUE)

ClockSpec == ClockInit /\ [][ClockNext]_vars

\* sessions of reads and writes of one and two cells on overlapping
\* addresses, the fatal ones and the reads of address space 0 included, with
\* unconstrained reads between them, of address space 0 and beyond the
\* address width too; the clock stays within MaxPeekClock
PeekInit ==
    \/ Constructed(with_volatile_memory)
    \/ Constructed(with_persistent_memory(memory_image_to_equipartition(ImageA, CHUNK)))

PeekNext ==
    \/ \E a \in AddressSpaces, p \in AccessPointers \cup {PtrBound}, N \in Sizes :
          /\ timestamp < MaxPeekClock \/ ReadCall(memory, a, p, N).outcome # "ok"
          /\ Read(a, p, N)
    \/ \E a \in AddressSpaces, p \in AccessPointers \cup {PtrBound}, N \in Sizes :
          \E d \in {[i \in 1..N |-> 1]} :
             /\ timestamp < MaxPeekClock \/ WriteCall(memory, a, p, d).outcome # "ok"
             /\ Write(a, p, d)
    \/ \E a \in AddressSpaces, p \in AccessPointers \cup {PtrBound}, N \in Sizes :
          UnsafeRead(a, p, N)

PeekSpec == PeekInit /\ [][PeekNext]_vars

\* the sum of the entries of a map under the keys given
RECURSIVE SumOver(_, _)
SumOver(map, keys) ==
    IF keys = {} THEN 0
    ELSE LET k == CHOOSE x \in keys : TRUE
         IN  map[k] + SumOver(map, keys \ {k})

\* the trace cells of the two AIRs
TraceCellVectors == {<<b, a>> : b \in 0..MaxTraceCells, a \in 0..MaxTraceCells}

\* Option<String> of the DSL instruction, and the opcode names
DslInstrs == {[some |-> FALSE, value |-> ""], [some |-> TRUE, value |-> "for"]}
OpcodeNames == {"LOADW", "STOREW"}

\* a segment whose AIRs hold no cell, or one cell of the first AIR, before the
\* first instruction
MetricsInit ==
    \E start \in {<<0, 0>>, <<1, 0>>} :
        /\ interface_chip = with_volatile_memory.interface_chip
        /\ memory = with_volatile_memory.memory
        /\ access_adapters = <<>>
        /\ final_state = NoFinalState
        /\ overridden_heights = NoOverriddenHeights
        /\ records = <<>>
        /\ advanced = FALSE
        /\ last = Call("new")
        /\ origin = [loaded |-> EmptyEquipartition, held |-> <<>>, segment |-> 1,
                     trace_cells |-> start]
        /\ metrics = DefaultVmMetrics

\* the trace cells the AIRs held when the last instruction was reported
ReportedTraceCells ==
    IF last.op = "update_trace_cells" THEN last.now_trace_cells ELSE origin.trace_cells

\* the calls made so far
MetricCalls == SumOver(metrics.counts, DOMAIN metrics.counts)

\* instruction after instruction, each leaving every AIR with at least the
\* cells it had, and each reported with its opcode and DSL instruction
MetricsNext ==
    \E now \in TraceCellVectors, opcode_name \in OpcodeNames, dsl_instr \in DslInstrs :
        /\ MetricCalls < MaxMetricCalls
        /\ \A i \in 1..2 : now[i] >= ReportedTraceCells[i]
        /\ UpdateTraceCells(now, opcode_name, dsl_instr)

MetricsSpec == MetricsInit /\ [][MetricsNext]_vars

\* MemoryTraceHeights of both variants with every height up to MaxRoundHeight
RoundInputs ==
    {[variant |-> v, boundary |-> b,
      merkle |-> IF v = "Persistent" THEN m ELSE 0,
      access_adapters |-> <<a1, a2, a3>>] :
        v \in {"Volatile", "Persistent"}, b \in 0..MaxRoundHeight,
        m \in {0, 3, MaxRoundHeight},
        a1 \in {0, 1}, a2 \in 0..MaxRoundHeight, a3 \in {2, 3, MaxRoundHeight}}

RoundInit ==
    \E heights \in RoundInputs :
        /\ interface_chip = with_volatile_memory.interface_chip
        /\ memory = with_volatile_memory.memory
        /\ access_adapters = <<>>
        /\ final_state = NoFinalState
        /\ overridden_heights = NoOverriddenHeights
        /\ records = <<>>
        /\ advanced = FALSE
        /\ last = [Call("heights") EXCEPT !.heights = heights]
        /\ origin = [loaded |-> EmptyEquipartition, held |-> <<>>, segment |-> 1,
                     trace_cells |-> NoTraceCells]
        /\ metrics = DefaultVmMetrics

\* the two roundings, one after the other in any order, any number of times
RoundNext ==
    \/ RoundToNextPowerOfTwo
    \/ RoundToNextPowerOfTwoOrZero

RoundSpec == RoundInit /\ [][RoundNext]_vars

TickInit ==
    \/ Constructed(with_volatile_memory)
    \/ Constructed(with_persistent_memory(memory_image_to_equipartition(ImageA, CHUNK)))

\* sessions made of successful accesses alone, with no other operation on the
\* clock: reads and writes of one cell in two address spaces, at repeated
\* addresses up to the last one in bounds, immediate reads, and reads and
\* writes of two cells; the clock stays within MaxTickClock
TickNext ==
    \/ /\ timestamp < MaxTickClock
       /\ \E a \in {1, 2}, p \in {0, PtrBound - 1} : Read(a, p, 1)
    \/ /\ timestamp < MaxTickClock
       /\ \E a \in {1, 2}, p \in {0, PtrBound - 1} : \E d \in WriteData(1) : Write(a, p, d)
    \/ /\ timestamp < MaxTickClock
       /\ \E p \in {0, PtrBound} : Read(0, p, 1)
    \/ /\ timestamp < MaxTickClock
       /\ Read(1, 0, 2)
    \/ /\ timestamp < MaxTickClock
       /\ \E d \in WriteData(2) : Write(1, 0, d)

TickSpec == TickInit /\ [][TickNext]_vars

-----------------------------------------------------------------------------
(* Properties *)

LastRecord == records[Len(records)]

AccessOps == {"read", "write"}

\* the write records before record i that cover cell <<a, p>>
WritersBefore(i, a, p) ==
    {j \in 1..(i - 1) :
        /\ records[j].kind = "write"
        /\ records[j].address_space = a
        /\ records[j].pointer <= p
        /\ p < records[j].pointer + Len(records[j].data)}

Latest(S) == CHOOSE j \in S : \A k \in S : k <= j

\* the value of <<a, p>> in the initial memory image of the interface
InitialValue(a, p) ==
    IF <<a, p \div CHUNK>> \in DOMAIN interface_chip.initial_memory
    THEN interface_chip.initial_memory[<<a, p \div CHUNK>>][(p % CHUNK) + 1]
    ELSE 0

\* what a read issued as record i must return for cell <<a, p>>
ExpectedValue(i, a, p) ==
    IF WritersBefore(i, a, p) = {}
    THEN InitialValue(a, p)
    ELSE records[Latest(WritersBefore(i, a, p))].data[
             p - records[Latest(WritersBefore(i, a, p))].pointer + 1]

\* C1: the data a read<N> at address A of a non-zero address space returns is,
\* cell by cell, the data of the most recent prior write covering the cell, of
\* whatever size; for a cell never written it is the value of the initial
\* memory image, zero where there is none.
C1_ReadAfterWrite ==
    (last.op = "read" /\ last.outcome = "ok" /\ last.address_space # 0) =>
        /\ Len(LastRecord.data) = last.N
        /\ \A k \in 1..last.N :
              LastRecord.data[k] =
                  ExpectedValue(Len(records), last.address_space, last.pointer + k - 1)

\* a one-cell read that returns the later of two writes of different sizes to
\* its cell, the earlier one having written another value
C1_Witness ==
    /\ last.op = "read" /\ last.outcome = "ok" /\ last.address_space # 0 /\ last.N = 1
    /\ Len(records) = 3
    /\ records[1].kind = "write" /\ records[2].kind = "write"
    /\ Len(records[1].data) = 1 /\ Len(records[2].data) = 2
    /\ records[1].pointer = last.pointer /\ records[2].pointer = last.pointer
    /\ records[1].data[1] # records[2].data[1]
    /\ LastRecord.data[1] = records[2].data[1]

C3_TimestampsByIssuance ==
    \A i \in 1..Len(records), j \in 1..Len(records) :
        i < j => records[i].timestamp < records[j].timestamp

\* an immediate read and a write with an increment of the clock between them
C3_Witness ==
    /\ Len(records) = 2
    /\ records[1].address_space = 0
    /\ records[2].kind = "write"
    /\ records[2].timestamp > records[1].timestamp + 1

\* C4: once finalize has succeeded, a later call of finalize is fatal and
\* changes nothing.
C4_FinalizeOnce ==
    [][(final_state.kind # "None" /\ last'.op = "finalize") =>
          /\ last'.outcome = "DoubleFinalize"
          /\ UNCHANGED <<controller, records, advanced>>]_vars

\* a second finalize, refused, on a persistent controller
C4_Witness ==
    /\ last.op = "finalize" /\ last.outcome = "DoubleFinalize"
    /\ final_state.kind = "Persistent"

MutatingOps ==
    {"read", "write", "set_initial_memory", "increment_timestamp",
     "increment_timestamp_by"}

\* C5: once finalize has succeeded, every mutating call (read, write,
\* set_initial_memory, increment_timestamp, increment_timestamp_by) is fatal.
C5_FinalizedIsTerminal ==
    (final_state.kind # "None" /\ last.op \in MutatingOps) => last.outcome # "ok"

\* C6: read<1> of address space 0 at pointer p succeeds for every p, returns
\* [p], and changes nothing but the clock, which advances by exactly one.
C6_ImmediateRead ==
    [][(last'.op = "read" /\ last'.address_space = 0 /\ last'.N = 1) =>
          /\ last'.outcome = "ok"
          /\ records' = Append(records, records'[Len(records')])
          /\ records'[Len(records')].data = <<last'.pointer>>
          /\ memory'.timestamp = memory.timestamp + 1
          /\ memory'.data = memory.data
          /\ memory'.block_data = memory.block_data
          /\ UNCHANGED <<interface_chip, access_adapters, final_state>>]_vars

\* the first call of a session is an immediate read, of a pointer beyond the
\* address width
C6_Witness ==
    /\ last.op = "read" /\ last.address_space = 0 /\ last.outcome = "ok"
    /\ last.pointer >= PtrBound
    /\ Len(records) = 1 /\ records[1].data = <<last.pointer>>

\* C7: read<N> with N # 1 on address space 0, and write<N> on address space
\* 0, are fatal before the clock, a cell, the touched set or the adapter
\* inventory changes.
C7_ZeroAddressSpaceFatal ==
    [][(\/ last'.op = "read" /\ last'.address_space = 0 /\ last'.N # 1
        \/ last'.op = "write" /\ last'.address_space = 0) =>
          /\ last'.outcome = "InvalidZeroAddressSpaceAccess"
          /\ UNCHANGED <<controller, records, advanced>>]_vars

\* a refused write to address space 0 after a successful access
C7_Witness ==
    /\ last.op = "write" /\ last.address_space = 0
    /\ last.outcome = "InvalidZeroAddressSpaceAccess"
    /\ Len(records) >= 1

\* C8: a read or write of a non-zero address space at a pointer >=
\* 2^pointer_max_bits is fatal and changes nothing; at 2^pointer_max_bits - 1
\* with N = 1 it succeeds.
C8_OutOfBounds ==
    [][(last'.op \in AccessOps /\ last'.address_space # 0) =>
          /\ last'.pointer >= PtrBound =>
                /\ last'.outcome = "OutOfBounds"
                /\ UNCHANGED <<controller, records, advanced>>
          /\ (last'.pointer = PtrBound - 1 /\ last'.N = 1) => last'.outcome = "ok"]_vars

\* a refused write at 2^pointer_max_bits after a successful one just below it
C8_Witness ==
    /\ last.op = "write" /\ last.address_space # 0 /\ last.pointer = PtrBound
    /\ last.outcome = "OutOfBounds"
    /\ Len(records) >= 1
    /\ LastRecord.kind = "write" /\ LastRecord.pointer = PtrBound - 1
    /\ Len(LastRecord.data) = 1

\* C9: no cell of a non-zero address space at or beyond 2^pointer_max_bits is
\* ever stored to or passed to touch_address, batch accesses included.
C9_NoCellBeyondBound ==
    \A a \in interface_chip.touched \cup DOMAIN memory.data :
        a[1] # 0 => a[2] < PtrBound

\* C10: after a read, a write, increment_timestamp or increment_timestamp_by(d)
\* with d >= 1 has succeeded, set_initial_memory is fatal and replaces neither
\* the initial memory nor the store.
C10_InitialMemoryOnlyAtStart ==
    [][(advanced /\ last'.op = "set_initial_memory") =>
          /\ last'.outcome = "PrematureInitialMemorySet"
          /\ UNCHANGED <<controller, records, advanced>>]_vars

\* set_initial_memory refused on a persistent controller whose clock was
\* advanced by increment_timestamp alone
C10_Witness ==
    /\ last.op = "set_initial_memory"
    /\ last.outcome = "PrematureInitialMemorySet"
    /\ interface_chip.kind = "Persistent"
    /\ advanced /\ records = <<>>
    /\ DOMAIN last.arg_memory # {}

ProbeCells == {<<a, p>> : a \in AddressSpaces \ {0}, p \in 0..(2 * CHUNK - 1)}

\* the value an Equipartition<CHUNK> assigns to the cell <<a, p>>
EquipartitionValue(e, a, p) ==
    IF <<a, p \div CHUNK>> \in DOMAIN e
    THEN e[<<a, p \div CHUNK>>][(p % CHUNK) + 1]
    ELSE 0

\* C12: on a persistent controller, once set_initial_memory(m) has replaced
\* the image given to with_persistent_memory, unsafe_read and read of every
\* address not yet written return the value m assigns to it (zero where m has
\* no block), and finalize hands m to the interface as the initial memory of
\* the transition.  `origin.loaded` is the image last handed over.
C12_InitialMemoryReplaced ==
    interface_chip.kind = "Persistent" =>
        /\ \A c \in ProbeCells :
              WritersBefore(Len(records) + 1, c[1], c[2]) = {} =>
                  unsafe_read(memory, c[1], c[2], 1) =
                      <<EquipartitionValue(origin.loaded, c[1], c[2])>>
        /\ (last.op = "read" /\ last.outcome = "ok" /\ last.address_space # 0) =>
              \A k \in 1..last.N :
                  WritersBefore(Len(records), last.address_space, last.pointer + k - 1) = {}
                      => LastRecord.data[k] =
                             EquipartitionValue(origin.loaded, last.address_space,
                                                last.pointer + k - 1)
        /\ (last.op = "finalize" /\ last.outcome = "ok") =>
              last.transition.initial = origin.loaded

\* set_initial_memory has just replaced the image of a persistent controller
\* by one that holds 5 in cell 1 and nothing in cell 0
C12_Witness ==
    /\ interface_chip.kind = "Persistent"
    /\ last.op = "set_initial_memory" /\ last.outcome = "ok"
    /\ last.arg_memory = memory_image_to_equipartition(ImageB, CHUNK)
    /\ unsafe_read(memory, 1, 0, 2) = <<0, 5>>

\* C13: on a controller not yet finalized, finalize succeeds and returns None
\* if it is volatile, with or without a hasher; succeeds and returns
\* Some(final Equipartition), the values of the store's final partition, if it
\* is persistent and a hasher is given; and is fatal, leaving the controller
\* not finalized, if it is persistent and no hasher is given.
C13_FinalizeReturn ==
    [][(last'.op = "finalize" /\ final_state.kind = "None") =>
          /\ interface_chip.kind = "Volatile" =>
                /\ last'.outcome = "ok"
                /\ ~last'.returned.some
                /\ final_state'.kind = "Volatile"
          /\ (interface_chip.kind = "Persistent" /\ last'.hasher) =>
                /\ last'.outcome = "ok"
                /\ last'.returned.some
                /\ last'.returned.value = FinalMemoryValues(last'.transition.final)
                /\ final_state'.kind = "Persistent"
          /\ (interface_chip.kind = "Persistent" /\ ~last'.hasher) =>
                /\ last'.outcome # "ok"
                /\ final_state'.kind = "None"
                /\ UNCHANGED <<controller, records, advanced>>]_vars

\* a volatile controller finalized with a hasher after an access: None
C13_Witness ==
    /\ interface_chip.kind = "Volatile"
    /\ last.op = "finalize" /\ last.outcome = "ok" /\ last.hasher
    /\ ~last.returned.some
    /\ Len(records) >= 1

\* the value last written to <<a, p>> by the writes on record, zero if none
LastWritten(a, p) ==
    IF WritersBefore(Len(records) + 1, a, p) = {}
    THEN 0
    ELSE records[Latest(WritersBefore(Len(records) + 1, a, p))].data[
             p - records[Latest(WritersBefore(Len(records) + 1, a, p))].pointer + 1]

\* the accesses on record that cover a cell of the block <<a, label>>
AccessesOfBlock(a, label) ==
    {j \in 1..Len(records) :
        /\ records[j].address_space = a
        /\ records[j].pointer < (label + 1) * CHUNK
        /\ records[j].pointer + Len(records[j].data) > label * CHUNK}

\* the blocks with a cell written by a write on record
WrittenBlocks ==
    {<<c[1], c[2] \div CHUNK>> :
        c \in {w \in SegmentCells : WritersBefore(Len(records) + 1, w[1], w[2]) # {}}}

\* C14: the Equipartition a persistent finalize returns, for a controller
\* whose initial memory is empty: every block present has CHUNK cells, each
\* with the value last written to it (zero if never written), and covers a
\* cell that was accessed; every block with a written cell is present.
C14_FinalEquipartition ==
    (/\ last.op = "finalize" /\ last.outcome = "ok" /\ last.returned.some
     /\ origin.segment = 1 /\ DOMAIN origin.loaded = {}) =>
        /\ \A key \in DOMAIN last.returned.value :
              /\ DOMAIN last.returned.value[key] = 1..CHUNK
              /\ \A i \in 1..CHUNK :
                    last.returned.value[key][i] =
                        LastWritten(key[1], key[2] * CHUNK + (i - 1))
              /\ AccessesOfBlock(key[1], key[2]) # {}
        /\ WrittenBlocks \subseteq DOMAIN last.returned.value

\* a finalize that returns exactly one block, in which a write of one cell
\* has replaced the value of an earlier write of two cells
C14_Witness ==
    /\ last.op = "finalize" /\ last.outcome = "ok" /\ last.returned.some
    /\ origin.segment = 1 /\ DOMAIN origin.loaded = {}
    /\ Len(records) = 2
    /\ records[1].kind = "write" /\ records[1].data = <<1, 1>> /\ records[1].pointer = 0
    /\ records[2].kind = "write" /\ records[2].data = <<2>> /\ records[2].pointer = 0
    /\ records[1].address_space = 1 /\ records[2].address_space = 1
    /\ DOMAIN last.returned.value = {<<1, 0>>}
    /\ last.returned.value[<<1, 0>>] = <<2, 1, 0, 0, 0, 0, 0, 0>>

\* C15: in the second of two chained persistent segments, constructed with
\* the Equipartition the finalize of the first returned, unsafe_read and read
\* of every address the second segment has not written return the value the
\* first segment held there when it was finalized (`origin.held`).
C15_ContinuationPreservesMemory ==
    origin.segment = 2 =>
        /\ \A c \in SegmentCells :
              WritersBefore(Len(records) + 1, c[1], c[2]) = {} =>
                  unsafe_read(memory, c[1], c[2], 1) = <<origin.held[c]>>
        /\ (last.op = "read" /\ last.outcome = "ok" /\ last.address_space # 0) =>
              \A k \in 1..last.N :
                  WritersBefore(Len(records), last.address_space, last.pointer + k - 1) = {}
                      => LastRecord.data[k] =
                             origin.held[<<last.address_space, last.pointer + k - 1>>]

\* the second segment reads two cells: one the first segment wrote, one that
\* kept the value of the first segment's initial memory
C15_Witness ==
    /\ origin.segment = 2
    /\ last.op = "read" /\ last.outcome = "ok"
    /\ last.address_space = 1 /\ last.pointer = PtrBound - 2 /\ last.N = 2
    /\ LastRecord.data = <<2, 4>>

\* C16: on a volatile controller, as long as every access on record is a
\* read or write of one cell, the height of every access-adapter size class
\* is 0, however the accesses are ordered and whatever addresses they repeat.
C16_NoSpuriousAdapterRecords ==
    (/\ interface_chip.kind = "Volatile"
     /\ \A i \in 1..Len(records) : Len(records[i].data) = 1) =>
        \A c \in 1..num_access_adapters : get_heights(access_adapters)[c] = 0

\* three accesses of one cell at the same address of a volatile controller:
\* a write, a read of it and a second write
C16_Witness ==
    /\ interface_chip.kind = "Volatile"
    /\ Len(records) = 3
    /\ \A i \in 1..3 : records[i].address_space = 2 /\ records[i].pointer = PtrBound - 1
    /\ records[1].kind = "write" /\ records[2].kind = "read" /\ records[3].kind = "write"
    /\ \A i \in 1..3 : Len(records[i].data) = 1
    /\ get_heights(access_adapters) = [c \in 1..num_access_adapters |-> 0]

\* C18: every successful read or write advances the clock by exactly 1,
\* whatever the address space (0 included) and the same for a read and a
\* write of the same size: after k accesses and no other operation on the
\* clock, timestamp() is its starting value plus k.
C18_OneTickPerAccess ==
    timestamp = INITIAL_TIMESTAMP + 1 + Len(records)

\* an immediate read, a write of one cell and a read of it: three ticks
C18_Witness ==
    /\ Len(records) = 3
    /\ records[1].address_space = 0
    /\ records[2].kind = "write" /\ Len(records[2].data) = 1
    /\ records[3].kind = "read" /\ records[3].address_space = records[2].address_space
    /\ records[3].pointer = records[2].pointer /\ records[3].data = records[2].data
    /\ timestamp = INITIAL_TIMESTAMP + 4

\* C17: memory_image_to_equipartition::<N>(image) holds every entry
\* (address_space, addr) -> v of the image at block (address_space, addr / N),
\* position addr % N; every other cell of a block that is present is zero;
\* and a block is present only if the image has an address in it.
C17_ImageRoundTrip ==
    last.op = "memory_image_to_equipartition" =>
        /\ \A a \in DOMAIN last.memory_image :
              /\ <<a[1], a[2] \div last.N>> \in DOMAIN last.returned.value
              /\ last.returned.value[<<a[1], a[2] \div last.N>>][(a[2] % last.N) + 1]
                     = last.memory_image[a]
        /\ \A key \in DOMAIN last.returned.value :
              /\ DOMAIN last.returned.value[key] = 1..last.N
              /\ \A i \in 1..last.N :
                    <<key[1], key[2] * last.N + (i - 1)>> \notin DOMAIN last.memory_image
                        => last.returned.value[key][i] = 0
              /\ \E a \in DOMAIN last.memory_image :
                    a[1] = key[1] /\ a[2] \div last.N = key[2]

\* an image with two words in one block of three cells, one in the next
\* block and one in another address space, converted
C17_Witness ==
    /\ last.op = "memory_image_to_equipartition" /\ last.N = 3
    /\ last.memory_image =
           (<<1, 0>> :> 1) @@ (<<1, 1>> :> 2) @@ (<<1, 3>> :> 2) @@ (<<2, 1>> :> 1)
    /\ last.returned.value =
           (<<1, 0>> :> <<1, 2, 0>>) @@ (<<1, 1>> :> <<2, 0, 0>>) @@ (<<2, 0>> :> <<0, 1, 0>>)

\* the chips of a trace-shape list, in its order
ChipsOf(list) == [i \in 1..Len(list) |-> <<list[i].chip, list[i].n>>]

\* the access adapters in their order: block sizes 2, 4, .., max_access_adapter_n
AdaptersInOrder == [i \in 1..num_access_adapters |-> <<"AccessAdapter", Pow2(i)>>]

\* the shape of one list: num_airs() entries, the boundary chip first, the
\* Merkle chip second if and only if the controller is persistent, then the
\* access adapters in their order
ShapeOf(list) ==
    /\ Len(list) = num_airs
    /\ ChipsOf(list)[1] = <<"Boundary", 0>>
    /\ (ChipsOf(list)[2] = <<"Merkle", 0>>) <=> (interface_chip.kind = "Persistent")
    /\ SubSeq(ChipsOf(list), Len(list) - num_access_adapters + 1, Len(list)) = AdaptersInOrder
    /\ Len(list) - num_access_adapters = IF interface_chip.kind = "Persistent" THEN 2 ELSE 1

\* C19: in every state air_names(), current_trace_heights(),
\* current_trace_cells(), airs() and generate_air_proof_inputs() have
\* num_airs() entries each: the Boundary chip, then the Merkle chip if and
\* only if the controller is persistent, then the access adapters in one order.
C19_TraceShapeLists ==
    /\ ShapeOf(air_names)
    /\ ShapeOf(current_trace_heights)
    /\ ShapeOf(current_trace_cells)
    /\ ShapeOf(airs)
    /\ ShapeOf(generate_air_proof_inputs)

\* a finalized persistent controller with adapter records and overridden
\* heights: five entries, the Merkle chip second
C19_Witness ==
    /\ final_state.kind = "Persistent"
    /\ access_adapters # <<>>
    /\ overridden_heights.merkle.some
    /\ ChipsOf(current_trace_heights) =
           <<<<"Boundary", 0>>, <<"Merkle", 0>>>> \o AdaptersInOrder
    /\ num_airs = 2 + num_access_adapters

\* C20: set_override_trace_heights with the heights of the other variant is
\* fatal and overrides no height; with the heights of the controller's own
\* variant it is not refused for the variant and, when it returns, has
\* overridden the boundary height, the Merkle height of a persistent
\* controller, and handed the adapter heights to the inventory.
C20_OverrideVariant ==
    [][last'.op = "set_override_trace_heights" =>
          /\ last'.heights.variant # interface_chip.kind =>
                /\ last'.outcome = "TraceHeightVariantMismatch"
                /\ UNCHANGED <<controller, records, advanced>>
          /\ last'.heights.variant = interface_chip.kind =>
                /\ last'.outcome # "TraceHeightVariantMismatch"
                /\ last'.outcome = "ok" =>
                      /\ overridden_heights'.boundary =
                             [some |-> TRUE, height |-> last'.heights.boundary]
                      /\ interface_chip.kind = "Persistent" =>
                             overridden_heights'.merkle =
                                 [some |-> TRUE, height |-> last'.heights.merkle]
                      /\ interface_chip.kind = "Volatile" =>
                             overridden_heights'.merkle = overridden_heights.merkle
                      /\ overridden_heights'.access_adapters =
                             [some |-> TRUE, heights |-> last'.heights.access_adapters]
                      /\ UNCHANGED <<interface_chip, memory, access_adapters, final_state>>]_vars

\* the heights of a volatile controller refused by a persistent one whose
\* heights were overridden before
C20_Witness ==
    /\ last.op = "set_override_trace_heights"
    /\ last.outcome = "TraceHeightVariantMismatch"
    /\ interface_chip.kind = "Persistent" /\ last.heights.variant = "Volatile"
    /\ overridden_heights.boundary.some /\ overridden_heights.merkle.some
    /\ overridden_heights.boundary.height # last.heights.boundary

\* C21: unsafe_read<N> and unsafe_read_cell change nothing: not the clock, a
\* cell's value or timestamp, the touched set or the adapter inventory; and
\* what they return at a non-zero address space is the data of a read<N>
\* issued right after them at the same address.
C21_UnsafeReadPure ==
    [][/\ last'.op = "unsafe_read" =>
             /\ last'.outcome = "ok"
             /\ UNCHANGED <<controller, records, advanced>>
       /\ (/\ last.op = "unsafe_read" /\ last.address_space # 0
           /\ last'.op = "read" /\ last'.outcome = "ok"
           /\ last'.address_space = last.address_space
           /\ last'.pointer = last.pointer /\ last'.N = last.N) =>
             records'[Len(records')].data = last.returned.value]_vars

\* a read of two cells right after an unsafe_read of them, the second of
\* which a write has set: both return the same two values
C21_Witness ==
    /\ last.op = "read" /\ last.outcome = "ok" /\ last.N = 2 /\ last.pointer = 0
    /\ Len(records) = 2
    /\ records[1].kind = "write" /\ records[1].pointer = 1 /\ Len(records[1].data) = 1
    /\ LastRecord.data = <<unsafe_read_cell(memory, 1, 0), records[1].data[1]>>
    /\ timestamp = INITIAL_TIMESTAMP + 3

\* C22: across read, write, increment_timestamp, increment_timestamp_by,
\* increase_timestamp_to, set_initial_memory and finalize the clock never
\* decreases, and after increase_timestamp_to(t) it equals t; a target below
\* the clock does not move the clock backwards.
C22_ClockNeverDecreases ==
    [][/\ timestamp' >= timestamp
       /\ (last'.op = "increase_timestamp_to" /\ last'.outcome = "ok") =>
             timestamp' = last'.change]_vars

\* the cells of the successful accesses of a non-zero address space
AccessedCells ==
    UNION {{<<records[k].address_space, records[k].pointer + i>> :
               i \in 0..(Len(records[k].data) - 1)} :
           k \in {n \in DOMAIN records : records[n].address_space # 0}}

\* C23: the touched-address set is exactly the cells (address_space, p + i),
\* i in 0..N, of the successful read<N> and write<N> calls on a non-zero
\* address space; reads of address space 0, unsafe_read and failed accesses
\* touch nothing.
C23_TouchedIsAccessed == interface_chip.touched = AccessedCells

\* after a read of address space 0 and a write of two cells, an access that
\* failed: the two cells of the write are the touched set
C23_Witness ==
    /\ last.op \in {"read", "write"} /\ last.outcome = "OutOfBounds"
    /\ Len(records) = 2
    /\ records[1].address_space = 0
    /\ records[2].kind = "write" /\ Len(records[2].data) = 2
    /\ interface_chip.touched = {<<1, 1>>, <<1, 2>>}

\* the records, of the kinds given, that cover cell <<a, p>>
Covering(kinds, a, p) ==
    {j \in DOMAIN records :
        /\ records[j].kind \in kinds
        /\ records[j].address_space = a
        /\ records[j].pointer <= p
        /\ p < records[j].pointer + Len(records[j].data)}

\* no cell of the call is in the initial memory image or covered by a record
\* of the kinds given
Untouched(kinds, call) ==
    \A p \in call.pointer..(call.pointer + call.N - 1) :
        /\ Covering(kinds, call.address_space, p) = {}
        /\ <<call.address_space, p \div CHUNK>> \notin DOMAIN interface_chip.initial_memory

\* the record a read of cells that hold nothing produces
ZeroRecordAppended ==
    /\ records' = Append(records, records'[Len(records')])
    /\ \A i \in DOMAIN records'[Len(records')].data : records'[Len(records')].data[i] = 0
    /\ records'[Len(records')].prev_timestamp = INITIAL_TIMESTAMP
    /\ records'[Len(records')].timestamp = timestamp
    /\ timestamp' > timestamp

\* C24 as stated: a read of an address that was never written and is not in
\* an initial memory image produces a record with data all zero,
\* prev_timestamp 0 and the clock of the call as timestamp, and advances the
\* clock.
C24_NeverWrittenRead ==
    [][(last'.op = "read" /\ last'.outcome = "ok" /\ Untouched({"write"}, last')) =>
          ZeroRecordAppended]_vars

\* C24, amended: a read, on a non-zero address space, of an address that was
\* never written or read before and is not in an initial memory image
\* produces a record with data all zero, prev_timestamp 0 and the clock of the
\* call as timestamp, and advances the clock.
C24_NeverAccessedRead ==
    [][(/\ last'.op = "read" /\ last'.outcome = "ok" /\ last'.address_space # 0
        /\ Untouched({"read", "write"}, last')) =>
          ZeroRecordAppended]_vars

\* a first read of cell 1 after a write and a read of cell 0 next to it
C24_Witness ==
    /\ interface_chip.initial_memory = EmptyEquipartition
    /\ Len(records) = 3
    /\ records[1].kind = "write" /\ records[1].pointer = 0 /\ Len(records[1].data) = 1
    /\ records[2].kind = "read" /\ records[2].address_space = 1
    /\ records[2].pointer = 0 /\ Len(records[2].data) = 1
    /\ LastRecord.kind = "read" /\ LastRecord.address_space = 1
    /\ LastRecord.pointer = 1 /\ LastRecord.data = <<0>>
    /\ LastRecord.prev_timestamp = INITIAL_TIMESTAMP /\ LastRecord.timestamp = 3
    /\ last.op = "read" /\ timestamp = 4

\* the timestamp of the latest record that covers the cell of the call, or
\* the initial timestamp if there is none
LastAccessTimestamp(call) ==
    IF Covering(AccessOps, call.address_space, call.pointer) = {}
    THEN INITIAL_TIMESTAMP
    ELSE records[Latest(Covering(AccessOps, call.address_space, call.pointer))].timestamp

\* C25: the record of a successful single-cell write at A has as prev_data
\* the value a read at A would have returned right before it, as data the
\* value written and as prev_timestamp the timestamp of the most recent prior
\* access to A, read or write, or 0 if there was none; the record of a
\* single-cell read has that prev_timestamp too.
C25_WriteRecordCapturesPrevious ==
    [][/\ (last'.op = "write" /\ last'.outcome = "ok" /\ last'.N = 1) =>
             /\ records' = Append(records, records'[Len(records')])
             /\ records'[Len(records')].prev_data =
                    ReadCall(memory, last'.address_space, last'.pointer, 1).record.data
             /\ records'[Len(records')].data = last'.data
             /\ records'[Len(records')].prev_timestamp = LastAccessTimestamp(last')
       /\ (/\ last'.op = "read" /\ last'.outcome = "ok" /\ last'.N = 1
           /\ last'.address_space # 0) =>
             records'[Len(records')].prev_timestamp = LastAccessTimestamp(last')]_vars

\* a write of cell 0, a read of it and a write of another value to it: the
\* last record holds the first value and the timestamp of the read
C25_Witness ==
    /\ Len(records) = 3
    /\ \A i \in 1..3 : /\ records[i].address_space = 1 /\ records[i].pointer = 0
                       /\ Len(records[i].data) = 1
    /\ records[1].kind = "write" /\ records[2].kind = "read" /\ records[3].kind = "write"
    /\ records[3].prev_data = records[1].data
    /\ records[3].data # records[1].data
    /\ records[3].prev_timestamp = records[2].timestamp
    /\ records[2].timestamp > records[1].timestamp
    /\ last.op = "write"

\* the block size Memory::finalize is called with
FinalizeSize == IF interface_chip.kind = "Volatile" THEN 1 ELSE CHUNK

\* the adapter records the store emits in the call `call` issued in this state
EmittedRecords(call) ==
    IF call.outcome # "ok" THEN <<>>
    ELSE IF call.op = "read" /\ call.address_space # 0
    THEN MemoryRead(memory, call.address_space, call.pointer, call.N).adapter_records
    ELSE IF call.op = "write"
    THEN MemoryWrite(memory, call.address_space, call.pointer, call.data).adapter_records
    ELSE IF call.op = "finalize"
    THEN MemoryFinalize(memory, FinalizeSize).records
    ELSE <<>>

\* the places in the inventory of the records of one kind for one block
RecordsOf(kind, r) ==
    {i \in DOMAIN access_adapters :
        access_adapters[i] = AdapterRecord(kind, r.address_space, r.pointer, r.size)}

\* every block that was merged was split and the other way round, and every
\* recorded block has the size of finalize
Reconciled ==
    /\ \A i \in DOMAIN access_adapters :
          Cardinality(RecordsOf("split", access_adapters[i]))
              = Cardinality(RecordsOf("merge", access_adapters[i]))
    /\ \A a \in DOMAIN memory.block_data : memory.block_data[a].size = FinalizeSize

\* C26: the adapter inventory grows, call by call, by exactly the adapter
\* records the store emitted in a read or write and by the residual records
\* of its finalize (finalize::<1> volatile, finalize::<CHUNK> persistent),
\* each once and nothing else; after finalize the records in it reconcile
\* every block to the size of finalize, so after batch accesses a volatile
\* finalize adds the splits back to size 1.
C26_AdapterRecordsKept ==
    [][/\ access_adapters' = access_adapters \o EmittedRecords(last')
       /\ (last'.op = "finalize" /\ last'.outcome = "ok") => Reconciled']_vars

\* a volatile finalize after a write of two cells: the merge of the write and
\* the split of finalize
C26_Witness ==
    /\ last.op = "finalize" /\ last.outcome = "ok"
    /\ interface_chip.kind = "Volatile"
    /\ Len(records) = 1 /\ records[1].kind = "write" /\ Len(records[1].data) = 2
    /\ access_adapters = <<AdapterRecord("merge", 1, records[1].pointer, 2),
                           AdapterRecord("split", 1, records[1].pointer, 2)>>

\* C27: final_state is None until a finalize succeeds; a successful finalize
\* sets it, on a controller where it is None, to the variant of the
\* interface, with the Equipartition that finalize returns as final_memory
\* in the persistent case; no other call changes or clears it.
C27_FinalStateSetOnce ==
    /\ final_state.kind = "None"
    /\ [][/\ (last'.op = "finalize" /\ last'.outcome = "ok") =>
                /\ final_state.kind = "None"
                /\ final_state'.kind = interface_chip.kind
                /\ final_state'.kind = "Persistent" =>
                      /\ last'.returned.some
                      /\ final_state'.final_memory = last'.returned.value
          /\ ~(last'.op = "finalize" /\ last'.outcome = "ok") =>
                final_state' = final_state]_vars

\* a persistent controller finalized after a write, and a read after that:
\* the final state still holds the written block
C27_Witness ==
    /\ final_state.kind = "Persistent" /\ interface_chip.kind = "Persistent"
    /\ last.op = "read" /\ last.outcome = "ok"
    /\ Len(records) = 2 /\ records[1].kind = "write" /\ records[1].pointer = 0
    /\ <<1, 0>> \in DOMAIN final_state.final_memory
    /\ final_state.final_memory[<<1, 0>>][1] = records[1].data[1]
    /\ final_state.final_memory # interface_chip.initial_memory

\* the cells attributed to the AIR over all (dsl_ir, opcode) keys
AttributedCells(air_name) ==
    SumOver(metrics.trace_cells, {k \in DOMAIN metrics.trace_cells : k[3] = air_name})

\* C28: after a sequence of update_trace_cells calls from a default VmMetrics,
\* the trace_cells of every AIR, summed over the (dsl_ir, opcode) keys, are
\* the cells the AIR gained over the calls, the gain of the first call
\* included: the last reported count minus the count before the first call;
\* and current_trace_cells is the vector reported last.
C28_CellAttributionComplete ==
    last.op = "update_trace_cells" =>
        /\ \A i \in DOMAIN SegmentAirNames :
              AttributedCells(SegmentAirNames[i])
                  = last.now_trace_cells[i] - origin.trace_cells[i]
        /\ metrics.current_trace_cells = last.now_trace_cells

\* r is the smallest power of two that is at least n
SmallestPowerOfTwoAtLeast(n, r) ==
    /\ \E k \in 0..(MaxRoundHeight + 1) : r = Pow2(k)
    /\ r >= n
    /\ r = 1 \/ r \div 2 < n

\* r is what the rounding `op` makes of the height n
RoundedHeight(op, n, r) ==
    IF op = "round_to_next_power_of_two_or_zero" /\ n = 0
    THEN r = 0
    ELSE SmallestPowerOfTwoAtLeast(n, r)

RoundOps == {"round_to_next_power_of_two", "round_to_next_power_of_two_or_zero"}

\* C29: round_to_next_power_of_two replaces boundary, merkle and each adapter
\* height by the smallest power of two at least it, 0 by 1;
\* round_to_next_power_of_two_or_zero does the same but leaves 0 as 0; both
\* keep the variant and the number of entries, and a second call of the same
\* rounding changes nothing.
C29_RoundingOfHeights ==
    [][last'.op \in RoundOps =>
          /\ last'.returned.value.variant = last'.heights.variant
          /\ Len(flatten(last'.returned.value)) = Len(flatten(last'.heights))
          /\ \A i \in DOMAIN flatten(last'.heights) :
                RoundedHeight(last'.op, flatten(last'.heights)[i],
                              flatten(last'.returned.value)[i])
          /\ last.op = last'.op => last'.returned.value = last'.heights]_vars

\* persistent heights with zeros, powers of two and other heights, rounded
\* once by round_to_next_power_of_two and then once more
C29_Witness ==
    /\ last.op = "round_to_next_power_of_two"
    /\ last.heights = [variant |-> "Persistent", boundary |-> 1, merkle |-> 4,
                       access_adapters |-> <<1, 8, 2>>]
    /\ last.returned.value = last.heights

=============================================================================
